---------------------------- MODULE Spec2Model ----------------------------
(***************************************************************************)
(* State-machine model of src/script.js: the webcam emotion page.          *)
(*                                                                         *)
(* The page is single-threaded and event-driven.  Every action below is    *)
(* one run-to-completion step of the event loop: an event handler, or the  *)
(* continuation of an async function after one of its awaits.  The         *)
(* environment (model loader, camera permission prompt, media element,     *)
(* interval timers, face detector) is modelled by the events it delivers.  *)
(*                                                                         *)
(* Scores are integers in units of 0.001 (820 stands for 0.82), so that    *)
(* (value * 100).toFixed(1) is exact: 820 -> "82.0".                       *)
(***************************************************************************)
EXTENDS Integers, Sequences, FiniteSets, TLC

(***************************************************************************)
(* Bounds of the model                                                     *)
(***************************************************************************)
\* getUserMedia requests that may be pending at once
MaxPending == 2
\* media streams the camera hands out in one page visit
MaxStreams == 2
\* interval timers created in one page visit
MaxTimers == 2
\* detector calls in flight at once
MaxInFlight == 2
\* faces in one detection result
MaxFaces == 2
\* labels, counted from the head of the registry, whose score varies in the
\* detection-loop specification (the others score 0)
MaxScored == 3

(***************************************************************************)
(* Static emotion registry (script.js 16-24)                               *)
(***************************************************************************)
\* Object.keys(emotionMap), in insertion order
Labels == <<"neutral", "happy", "sad", "angry", "fearful", "disgusted", "surprised">>

LabelSet == {Labels[i] : i \in 1..Len(Labels)}

emotionMap ==
    [l \in LabelSet |->
        CASE l = "neutral"   -> [emoji |-> "(neutral face)",   color |-> "#a0aec0"]
          [] l = "happy"     -> [emoji |-> "(smiling face)",   color |-> "#90ee90"]
          [] l = "sad"       -> [emoji |-> "(crying face)",    color |-> "#87ceeb"]
          [] l = "angry"     -> [emoji |-> "(angry face)",     color |-> "#ff6b6b"]
          [] l = "fearful"   -> [emoji |-> "(fearful face)",   color |-> "#daa520"]
          [] l = "disgusted" -> [emoji |-> "(nauseated face)", color |-> "#98d8c8"]
          [] l = "surprised" -> [emoji |-> "(astonished face)", color |-> "#ffd700"]]

\* String.prototype.toUpperCase on the labels the page handles
toUpperCase(s) ==
    CASE s = "neutral"   -> "NEUTRAL"
      [] s = "happy"     -> "HAPPY"
      [] s = "sad"       -> "SAD"
      [] s = "angry"     -> "ANGRY"
      [] s = "fearful"   -> "FEARFUL"
      [] s = "disgusted" -> "DISGUSTED"
      [] s = "surprised" -> "SURPRISED"
      [] OTHER           -> s

\* (value * 100).toFixed(1) for a score given in units of 0.001
toFixed1(v) == ToString(v \div 10) \o "." \o ToString(v % 10)

\* initEmotionsGrid(): every item rebuilt with value '0%', no inline bar
\* width and no 'active' class
initEmotionsGrid ==
    [l \in LabelSet |-> [value |-> "0%", width |-> "", active |-> FALSE]]

(***************************************************************************)
(* Detection results (the detector's output, an input of the page)         *)
(***************************************************************************)
ScoreLevels == {0, 100, 820}

Boxes == {[x |-> 10, y |-> 20, width |-> 100, height |-> 120]}

VideoSizes == {<<640, 480>>, <<1280, 720>>}

Reverse(s) == [i \in 1..Len(s) |-> s[Len(s) + 1 - i]]

\* orders in which Object.entries may enumerate a face's score mapping
Orders == {Labels, Reverse(Labels)}

\* score assignments over the seven labels in which the first k labels of
\* the registry take every combination of levels
ScoreMaps(k) ==
    LET scored == {Labels[i] : i \in 1..k}
    IN  {[l \in LabelSet |-> IF l \in scored THEN g[l] ELSE 0] : g \in [scored -> ScoreLevels]}

\* Object.entries(expressions): <<label, value>> pairs in iteration order
Entries(order, f) == [i \in 1..Len(order) |-> <<order[i], f[order[i]]>>]

NoFace == [length |-> 0, expressions |-> <<>>, box |-> [x |-> 0, y |-> 0, width |-> 0, height |-> 0]]

\* results with at least one face: the length of the list and its first face
FaceResults(orders, k) ==
    {[length |-> n, expressions |-> Entries(o, f), box |-> b] :
        n \in {1, MaxFaces}, o \in orders, f \in ScoreMaps(k), b \in Boxes}

\* results the detection-loop specification enumerates
AllDetections == {NoFace} \cup FaceResults(Orders, MaxScored)

\* score assignments the page-lifecycle specification enumerates: one clear
\* winner (0.82 happy, 0.10 sad, ...), all scores zero, a tie at the top
LoopScoreMaps ==
    {[l \in LabelSet |->
         CASE l = "happy" -> 820 [] l = "sad" -> 100 [] l = "neutral" -> 50
           [] l \in {"angry", "fearful"} -> 10 [] OTHER -> 5],
     [l \in LabelSet |-> 0],
     [l \in LabelSet |-> IF l \in {"sad", "surprised"} THEN 820 ELSE 0]}

\* results the page-lifecycle specification enumerates
LoopDetections ==
    {NoFace} \cup {[length |-> 1, expressions |-> Entries(Labels, f), box |-> b] :
                      f \in LoopScoreMaps, b \in Boxes}

(***************************************************************************)
(* State                                                                   *)
(***************************************************************************)
VARIABLES
    phase,              \* "loading" (load handler awaiting loadModels), "ready", "unloaded"
    toggleBtn,          \* [textContent, active, disabled]
    loadingIndicator,   \* [display, textContent]
    isVideoRunning,     \* script.js 11
    detectingInterval,  \* script.js 12: 0 is null, else the id setInterval returned
    ctx,                \* script.js 13: "null" or "2d"
    srcObject,          \* video.srcObject: 0 is null, else a stream id
    canvasSize,         \* <<canvas.width, canvas.height>>
    emotionName,        \* emotionName.textContent
    emotionConfidence,  \* emotionConfidence.textContent
    faceCount,          \* n of faceCount.textContent = 'Faces Detected: n'
    emotionsList,       \* per label: [value, width, active]
    overlay,            \* drawing operations on the canvas since it was last cleared
    pendingRequests,    \* getUserMedia promises not yet settled
    streamsObtained,    \* streams handed out so far (the next stream id is +1)
    liveStreams,        \* streams that still have a live track
    metadataPending,    \* a loadedmetadata event is due for the attached stream
    timersCreated,      \* interval timers created so far (the next id is +1)
    activeTimers,       \* interval timers not yet cleared
    inFlight,           \* detector calls awaiting their result
    stopped,            \* history: stopWebcam has returned and startWebcam was not called since
    uncaught,           \* history: an exception escaped a function of the page
    lastEvent           \* history: the step taken last, with the result it delivered

vars == <<phase, toggleBtn, loadingIndicator, isVideoRunning, detectingInterval, ctx,
          srcObject, canvasSize, emotionName, emotionConfidence, faceCount,
          emotionsList, overlay, pendingRequests, streamsObtained, liveStreams,
          metadataPending, timersCreated, activeTimers, inFlight, stopped, uncaught,
          lastEvent>>

displayVars == <<emotionName, emotionConfidence, faceCount, emotionsList, overlay>>

cameraVars == <<pendingRequests, streamsObtained, liveStreams, srcObject, metadataPending>>

timerVars == <<detectingInterval, timersCreated, activeTimers>>

pageVars == <<toggleBtn, loadingIndicator>>

\* a step that takes no detection result
event(name) == [name |-> name, d |-> NoFace]

\* State once the window load handler (197-201) has run up to its await of
\* loadModels(): lines 11-13, then 198-200.
Init ==
    /\ phase = "loading"
    /\ toggleBtn = [textContent |-> "Loading Models...", active |-> FALSE, disabled |-> TRUE]
    /\ loadingIndicator = [display |-> "", textContent |-> "Loading"]
    /\ isVideoRunning = FALSE
    /\ detectingInterval = 0
    /\ ctx = "null"
    /\ srcObject = 0
    /\ canvasSize = <<300, 150>>
    /\ emotionName = "--"
    /\ emotionConfidence = "0%"
    /\ faceCount = 0
    /\ emotionsList = initEmotionsGrid
    /\ overlay = {}
    /\ pendingRequests = 0
    /\ streamsObtained = 0
    /\ liveStreams = {}
    /\ metadataPending = FALSE
    /\ timersCreated = 0
    /\ activeTimers = {}
    /\ inFlight = 0
    /\ stopped = FALSE
    /\ uncaught = FALSE
    /\ lastEvent = event("load")

(***************************************************************************)
(* Model loading (script.js 45-64) and the rest of the load handler        *)
(* (202-203)                                                               *)
(***************************************************************************)
\* the button state the load handler leaves after loadModels() returned (202-203)
afterLoadModels(btn) == [btn EXCEPT !.textContent = "Start Camera", !.disabled = FALSE]

\* Promise.all resolved: 57-59, then the load handler resumes at 202-203
loadModelsResolved ==
    /\ phase = "loading"
    /\ phase' = "ready"
    /\ loadingIndicator' = [loadingIndicator EXCEPT !.display = "none"]
    /\ toggleBtn' = afterLoadModels([toggleBtn EXCEPT !.disabled = FALSE])
    /\ lastEvent' = event("loadModelsResolved")
    /\ UNCHANGED <<isVideoRunning, ctx, canvasSize, displayVars, cameraVars, timerVars,
                   inFlight, stopped, uncaught>>

\* a loadFromUri promise rejected: the catch at 60-63 swallows it, loadModels()
\* returns normally and the load handler resumes at 202-203
loadModelsRejected ==
    /\ phase = "loading"
    /\ phase' = "ready"
    /\ loadingIndicator' = [loadingIndicator EXCEPT !.textContent = "Error loading models"]
    /\ toggleBtn' = afterLoadModels(toggleBtn)
    /\ lastEvent' = event("loadModelsRejected")
    /\ UNCHANGED <<isVideoRunning, ctx, canvasSize, displayVars, cameraVars, timerVars,
                   inFlight, stopped, uncaught>>

(***************************************************************************)
(* Webcam controller (script.js 67-103)                                    *)
(***************************************************************************)
\* clearInterval(handle) on the set of active timers; a null handle (0) and
\* an id already cleared are no-ops
clearInterval(active, handle) == active \ {handle}

\* tracks left live by video.srcObject.getTracks().forEach(track => track.stop())
\* (93-95): only the stream attached to the video element is stopped
stopTracks(live, attached) == IF attached # 0 THEN live \ {attached} ELSE live

\* a clearRect that leaves the surface as it is
clearRectKeeps(surface) == surface

\* ctx.clearRect(0, 0, canvas.width, canvas.height) (98, 115): the whole
\* surface is emptied
clearRect(surface) == {}

\* stopWebcam() (92-103).  With ctx still null, line 98 throws a TypeError
\* after 93-97 have run and before 99-102 run.
stopWebcam ==
    /\ liveStreams' = stopTracks(liveStreams, srcObject)
    /\ isVideoRunning' = FALSE
    /\ activeTimers' = IF detectingInterval # 0
                          THEN clearInterval(activeTimers, detectingInterval)
                          ELSE activeTimers
    /\ IF ctx = "null"
          THEN /\ uncaught' = TRUE
               /\ UNCHANGED displayVars
          ELSE /\ overlay' = clearRect(overlay)
               /\ emotionName' = "--"
               /\ emotionConfidence' = "0%"
               /\ faceCount' = 0
               /\ emotionsList' = initEmotionsGrid
               /\ UNCHANGED uncaught
    /\ stopped' = IF ctx = "null" THEN stopped ELSE TRUE

\* the button as the click handler leaves it after stopWebcam() (187-188)
toggleAfterStop(btn) == [btn EXCEPT !.textContent = "Start Camera", !.active = FALSE]

\* the button as the click handler leaves it after calling startWebcam() (191-192)
toggleAfterStart(btn) == [btn EXCEPT !.textContent = "Stop Camera", !.active = TRUE]

\* click on the toggle (184-194).  A disabled button receives no click.
\* In the start branch startWebcam() runs up to its await of getUserMedia
\* (69) and the handler goes on to 191-192.
toggleClick ==
    /\ phase # "unloaded"
    /\ ~toggleBtn.disabled
    /\ IF isVideoRunning
          THEN /\ stopWebcam
               /\ toggleBtn' = IF ctx = "null" THEN toggleBtn ELSE toggleAfterStop(toggleBtn)
               /\ lastEvent' = event("clickStop")
               /\ UNCHANGED <<pendingRequests, streamsObtained, metadataPending>>
          ELSE /\ pendingRequests < MaxPending
               /\ pendingRequests' = pendingRequests + 1
               /\ stopped' = FALSE
               /\ toggleBtn' = toggleAfterStart(toggleBtn)
               /\ lastEvent' = event("clickStart")
               /\ UNCHANGED <<isVideoRunning, displayVars, streamsObtained, liveStreams,
                              metadataPending, activeTimers, uncaught>>
    /\ UNCHANGED <<phase, loadingIndicator, detectingInterval, ctx, srcObject, canvasSize,
                   timersCreated, inFlight>>

\* a grant handler that leaves the drawing context unset (line 77 missing)
getUserMediaResolvedNoCtx ==
    /\ phase # "unloaded"
    /\ pendingRequests > 0
    /\ streamsObtained < MaxStreams
    /\ pendingRequests' = pendingRequests - 1
    /\ streamsObtained' = streamsObtained + 1
    /\ liveStreams' = liveStreams \cup {streamsObtained + 1}
    /\ srcObject' = streamsObtained + 1
    /\ isVideoRunning' = TRUE
    /\ metadataPending' = TRUE
    /\ lastEvent' = event("getUserMediaResolved")
    /\ UNCHANGED <<phase, pageVars, ctx, canvasSize, displayVars, timerVars, inFlight,
                   stopped, uncaught>>

\* getUserMedia resolved with a new stream: startWebcam() resumes at 73-83.
\* Attaching the stream makes the video element load it, after which it
\* fires loadedmetadata.
getUserMediaResolved ==
    /\ phase # "unloaded"
    /\ pendingRequests > 0
    /\ streamsObtained < MaxStreams
    /\ pendingRequests' = pendingRequests - 1
    /\ streamsObtained' = streamsObtained + 1
    /\ liveStreams' = liveStreams \cup {streamsObtained + 1}
    /\ srcObject' = streamsObtained + 1
    /\ isVideoRunning' = TRUE
    /\ ctx' = "2d"
    /\ metadataPending' = TRUE
    /\ lastEvent' = event("getUserMediaResolved")
    /\ UNCHANGED <<phase, pageVars, canvasSize, displayVars, timerVars, inFlight,
                   stopped, uncaught>>

\* getUserMedia rejected: the catch at 84-88 (alert, isVideoRunning = false)
getUserMediaRejected ==
    /\ phase # "unloaded"
    /\ pendingRequests > 0
    /\ pendingRequests' = pendingRequests - 1
    /\ isVideoRunning' = FALSE
    /\ lastEvent' = event("getUserMediaRejected")
    /\ UNCHANGED <<phase, pageVars, ctx, srcObject, canvasSize, displayVars,
                   streamsObtained, liveStreams, metadataPending, timerVars, inFlight,
                   stopped, uncaught>>

\* startDetection() without its clearInterval: the old timer keeps running
startDetectionNoClear(active, handle, new) == active \cup {new}

\* startDetection() (178-181) on the set of active timers: the timer the
\* handle names is cleared, then the new timer is created
startDetection(active, handle, new) ==
    (IF handle # 0 THEN clearInterval(active, handle) ELSE active) \cup {new}

\* video.onloadedmetadata (79-83): assigning canvas.width/height resets the
\* canvas bitmap, then startDetection()
onloadedmetadata ==
    /\ phase # "unloaded"
    /\ metadataPending
    /\ timersCreated < MaxTimers
    /\ metadataPending' = FALSE
    /\ \E size \in VideoSizes : canvasSize' = size
    /\ overlay' = {}
    /\ activeTimers' = startDetection(activeTimers, detectingInterval, timersCreated + 1)
    /\ detectingInterval' = timersCreated + 1
    /\ timersCreated' = timersCreated + 1
    /\ lastEvent' = event("loadedmetadata")
    /\ UNCHANGED <<phase, pageVars, isVideoRunning, ctx, srcObject, emotionName,
                   emotionConfidence, faceCount, emotionsList, pendingRequests,
                   streamsObtained, liveStreams, inFlight, stopped, uncaught>>

(***************************************************************************)
(* Detection loop (script.js 106-175)                                      *)
(***************************************************************************)
\* the dominant-emotion search (127-135) over entries i..Len(entries)
RECURSIVE findDominant(_, _, _, _)
findDominant(entries, i, maxEmotion, maxValue) ==
    IF i > Len(entries)
       THEN [emotion |-> maxEmotion, value |-> maxValue]
       ELSE IF entries[i][2] > maxValue
               THEN findDominant(entries, i + 1, entries[i][1], entries[i][2])
               ELSE findDominant(entries, i + 1, maxEmotion, maxValue)

\* the search with >= for >: the last entry at the maximum wins
RECURSIVE findDominantLast(_, _, _, _)
findDominantLast(entries, i, maxEmotion, maxValue) ==
    IF i > Len(entries)
       THEN [emotion |-> maxEmotion, value |-> maxValue]
       ELSE IF entries[i][2] >= maxValue
               THEN findDominantLast(entries, i + 1, entries[i][1], entries[i][2])
               ELSE findDominantLast(entries, i + 1, maxEmotion, maxValue)

dominantLastWins(entries) == findDominantLast(entries, 1, "neutral", 0)

dominant(entries) == findDominant(entries, 1, "neutral", 0)

\* 149-153 without the else branch: 'active' is added and never removed
itemClassNeverRemoved(wasActive, emotion, maxEmotion) == wasActive \/ emotion = maxEmotion

\* whether an item carries 'active' after 149-153 ran for its entry
itemClass(wasActive, emotion, maxEmotion) == emotion = maxEmotion

\* "update all emotions" (142-155) from entry i on: an entry whose label
\* has no item in the grid is skipped (144)
RECURSIVE updateEmotions(_, _, _, _)
updateEmotions(grid, entries, i, maxEmotion) ==
    IF i > Len(entries)
       THEN grid
       ELSE LET emotion == entries[i][1]
                percentage == toFixed1(entries[i][2])
            IN  IF emotion \in DOMAIN grid
                   THEN updateEmotions(
                            [grid EXCEPT ![emotion] =
                                [value |-> percentage \o "%",
                                 width |-> percentage \o "%",
                                 active |-> itemClass(grid[emotion].active, emotion, maxEmotion)]],
                            entries, i + 1, maxEmotion)
                   ELSE updateEmotions(grid, entries, i + 1, maxEmotion)

\* the face box and its label (157-166)
drawFace(box, maxEmotion, maxValue) ==
    {[op |-> "strokeRect", at |-> box, style |-> emotionMap[maxEmotion].color,
      lineWidth |-> 3, text |-> ""],
     [op |-> "fillText", at |-> [x |-> box.x, y |-> box.y - 10, width |-> 0, height |-> 0],
      style |-> emotionMap[maxEmotion].color, lineWidth |-> 3,
      text |-> emotionMap[maxEmotion].emoji \o " " \o toUpperCase(maxEmotion)
               \o " (" \o toFixed1(maxValue) \o "%)"]}

\* the zero-face branch without its initEmotionsGrid() call
gridLeftAsIs(grid) == grid

\* the grid the zero-face branch leaves (170)
gridWithoutFace(grid) == initEmotionsGrid

\* detectEmotions() from line 114 on, for the detector's result d
showDetections(d) ==
    /\ faceCount' = d.length
    /\ IF d.length > 0
          THEN LET dom == dominant(d.expressions)
               IN  /\ emotionName' = toUpperCase(dom.emotion)
                   /\ emotionConfidence' = toFixed1(dom.value) \o "%"
                   /\ emotionsList' = updateEmotions(emotionsList, d.expressions, 1, dom.emotion)
                   /\ overlay' = clearRect(overlay) \cup drawFace(d.box, dom.emotion, dom.value)
          ELSE /\ overlay' = clearRect(overlay)
               /\ emotionName' = "--"
               /\ emotionConfidence' = "0%"
               /\ emotionsList' = gridWithoutFace(emotionsList)

\* a tick that is skipped while an earlier detector call is unresolved
intervalTickSerialized ==
    /\ phase # "unloaded"
    /\ \E t \in activeTimers :
          IF isVideoRunning /\ inFlight = 0
             THEN /\ inFlight' = inFlight + 1
                  /\ lastEvent' = event("tick")
             ELSE /\ UNCHANGED inFlight
                  /\ lastEvent' = event("tickSkipped")
    /\ UNCHANGED <<phase, pageVars, isVideoRunning, ctx, canvasSize, displayVars,
                   cameraVars, timerVars, stopped, uncaught>>

\* a tick without the running check of line 107
intervalTickUnguarded ==
    /\ phase # "unloaded"
    /\ \E t \in activeTimers :
          /\ inFlight < MaxInFlight
          /\ inFlight' = inFlight + 1
          /\ lastEvent' = event("tick")
    /\ UNCHANGED <<phase, pageVars, isVideoRunning, ctx, canvasSize, displayVars,
                   cameraVars, timerVars, stopped, uncaught>>

\* an interval timer fires: detectEmotions() up to its await (106-112)
intervalTick ==
    /\ phase # "unloaded"
    /\ \E t \in activeTimers :
          IF isVideoRunning
             THEN /\ inFlight < MaxInFlight
                  /\ inFlight' = inFlight + 1
                  /\ lastEvent' = event("tick")
             ELSE /\ UNCHANGED inFlight
                  /\ lastEvent' = event("tickSkipped")
    /\ UNCHANGED <<phase, pageVars, isVideoRunning, ctx, canvasSize, displayVars,
                   cameraVars, timerVars, stopped, uncaught>>

\* a detector call resolved with d: detectEmotions() resumes at 114-171.
\* A TypeError on a null ctx at 115 would be caught at 172.
detectResolved(d) ==
    /\ phase # "unloaded"
    /\ inFlight > 0
    /\ inFlight' = inFlight - 1
    /\ IF ctx = "null" THEN UNCHANGED displayVars ELSE showDetections(d)
    /\ lastEvent' = [name |-> "detectResolved", d |-> d]
    /\ UNCHANGED <<phase, pageVars, isVideoRunning, ctx, canvasSize, cameraVars,
                   timerVars, stopped, uncaught>>

\* a catch block that also cancels the loop
detectRejectedStopsLoop ==
    /\ phase # "unloaded"
    /\ inFlight > 0
    /\ inFlight' = inFlight - 1
    /\ activeTimers' = clearInterval(activeTimers, detectingInterval)
    /\ lastEvent' = event("detectRejected")
    /\ UNCHANGED <<phase, pageVars, isVideoRunning, ctx, canvasSize, displayVars,
                   cameraVars, detectingInterval, timersCreated, stopped, uncaught>>

\* a detector call failed: the catch at 172-174 logs the error
detectRejected ==
    /\ phase # "unloaded"
    /\ inFlight > 0
    /\ inFlight' = inFlight - 1
    /\ lastEvent' = event("detectRejected")
    /\ UNCHANGED <<phase, pageVars, isVideoRunning, ctx, canvasSize, displayVars,
                   cameraVars, timerVars, stopped, uncaught>>

(***************************************************************************)
(* Page unload (script.js 207-209)                                         *)
(***************************************************************************)
\* an unload handler that forgets the stop sequence
beforeunloadNoStop ==
    /\ phase # "unloaded"
    /\ phase' = "unloaded"
    /\ lastEvent' = event(IF isVideoRunning THEN "beforeunloadStop" ELSE "beforeunload")
    /\ UNCHANGED <<pageVars, isVideoRunning, ctx, canvasSize, displayVars, cameraVars,
                   timerVars, inFlight, stopped, uncaught>>

beforeunload ==
    /\ phase # "unloaded"
    /\ phase' = "unloaded"
    /\ IF isVideoRunning
          THEN stopWebcam
          ELSE UNCHANGED <<liveStreams, isVideoRunning, activeTimers, displayVars,
                           uncaught, stopped>>
    /\ lastEvent' = event(IF isVideoRunning THEN "beforeunloadStop" ELSE "beforeunload")
    /\ UNCHANGED <<pageVars, detectingInterval, ctx, srcObject, canvasSize,
                   pendingRequests, streamsObtained, metadataPending, timersCreated,
                   inFlight>>

(***************************************************************************)
(* Specifications                                                          *)
(***************************************************************************)
\* the page driven by its own events
Next ==
    \/ loadModelsResolved
    \/ loadModelsRejected
    \/ toggleClick
    \/ getUserMediaResolved
    \/ getUserMediaRejected
    \/ onloadedmetadata
    \/ intervalTick
    \/ \E d \in LoopDetections : detectResolved(d)
    \/ detectRejected
    \/ beforeunload

Spec == Init /\ [][Next]_vars

\* stopWebcam() called directly (a test, the console) while the camera is
\* not running
stopWebcamCall ==
    /\ phase # "unloaded"
    /\ ~isVideoRunning
    /\ stopWebcam
    /\ lastEvent' = event("stopWebcam")
    /\ UNCHANGED <<phase, pageVars, detectingInterval, ctx, srcObject, canvasSize,
                   pendingRequests, streamsObtained, metadataPending, timersCreated,
                   inFlight>>

NextApi ==
    \/ Next
    \/ stopWebcamCall

\* the page with stopWebcam() also callable directly
SpecApi == Init /\ [][NextApi]_vars

\* A running session: models loaded, one stream granted and attached, its
\* metadata loaded, the first interval timer active, nothing displayed yet.
InitDetect ==
    /\ phase = "ready"
    /\ toggleBtn = [textContent |-> "Stop Camera", active |-> TRUE, disabled |-> FALSE]
    /\ loadingIndicator = [display |-> "none", textContent |-> "Loading"]
    /\ isVideoRunning = TRUE
    /\ detectingInterval = 1
    /\ ctx = "2d"
    /\ srcObject = 1
    /\ canvasSize = <<640, 480>>
    /\ emotionName = "--"
    /\ emotionConfidence = "0%"
    /\ faceCount = 0
    /\ emotionsList = initEmotionsGrid
    /\ overlay = {}
    /\ pendingRequests = 0
    /\ streamsObtained = 1
    /\ liveStreams = {1}
    /\ metadataPending = FALSE
    /\ timersCreated = 1
    /\ activeTimers = {1}
    /\ inFlight = 0
    /\ stopped = FALSE
    /\ uncaught = FALSE
    /\ lastEvent = event("loadedmetadata")

NextDetect ==
    \/ intervalTick
    \/ \E d \in AllDetections : detectResolved(d)
    \/ detectRejected

\* the detection loop of a running session, over every detection result
SpecDetect == InitDetect /\ [][NextDetect]_vars

(***************************************************************************)
(* Properties                                                              *)
(***************************************************************************)
\* the display in its zero state: name '--', confidence '0%', no face
\* counted, every item at '0%' with an empty bar and no highlight
ZeroDisplay ==
    /\ emotionName = "--"
    /\ emotionConfidence = "0%"
    /\ faceCount = 0
    /\ \A l \in LabelSet : emotionsList[l] = [value |-> "0%", width |-> "", active |-> FALSE]

\* the running session SpecDetect starts from is a state of the page
InitDetectReached == ~InitDetect

\* C1: once model loading has failed, the toggle is disabled and the loading
\* indicator shows the error, in every state afterwards.
C1_LoadFailureKeepsToggleDisabled ==
    loadingIndicator.textContent = "Error loading models" =>
        /\ toggleBtn.disabled
        /\ loadingIndicator.display # "none"

\* C2: once a denied or failed getUserMedia request has been handled, the
\* running flag is false and the toggle shows 'Start Camera' without the
\* active mark.
C2_DenialLeavesStartState ==
    lastEvent.name = "getUserMediaRejected" =>
        /\ ~isVideoRunning
        /\ toggleBtn.textContent = "Start Camera"
        /\ ~toggleBtn.active

\* C3: stopWebcam() called while the camera is not running does not throw
\* and leaves the reset state with running = false.
C3_StopIdempotentAndTotal ==
    lastEvent.name = "stopWebcam" =>
        /\ ~uncaught
        /\ ~isVideoRunning
        /\ ZeroDisplay

\* C4: from the return of stopWebcam() until startWebcam() is called again no
\* detection timer is active (so no tick fires).
C4_NoTimerAfterStop == stopped => activeTimers = {}

\* C5: at most one detection interval timer is active in every reachable state.
C5_AtMostOneTimer == Cardinality(activeTimers) <= 1

\* a second timer has replaced the first
C5_TimerReplaced == timersCreated > 1 /\ activeTimers = {timersCreated}

\* C6: after stopWebcam() has run from a handler, no stream obtained so far
\* has a live track.
C6_StopReleasesCamera ==
    lastEvent.name \in {"clickStop", "beforeunloadStop"} => liveStreams = {}

\* the score an entry list gives a label
ScoreOf(entries, l) == entries[CHOOSE i \in 1..Len(entries) : entries[i][1] = l][2]

\* the largest score of a non-empty entry list
MaxScore(entries) ==
    CHOOSE m \in {entries[i][2] : i \in 1..Len(entries)} :
        \A i \in 1..Len(entries) : entries[i][2] <= m

\* the first index, in iteration order, at which the largest score stands
EarliestMax(entries) ==
    CHOOSE i \in 1..Len(entries) :
        /\ entries[i][2] = MaxScore(entries)
        /\ \A j \in 1..(i - 1) : entries[j][2] < MaxScore(entries)

FaceTickDone == lastEvent.name = "detectResolved" /\ lastEvent.d.length > 0

\* C7: after a completed tick with at least one face, exactly one of the
\* seven items is highlighted and its score is maximal among the first
\* face's scores.
C7_OneActiveAndMaximal ==
    FaceTickDone =>
        LET act == {l \in LabelSet : emotionsList[l].active}
        IN  /\ Cardinality(act) = 1
            /\ \A l \in act :
                  ScoreOf(lastEvent.d.expressions, l) = MaxScore(lastEvent.d.expressions)

\* a tick with a tie at a non-zero maximum ended with one item highlighted
C7_TieHighlighted ==
    /\ FaceTickDone
    /\ MaxScore(lastEvent.d.expressions) > 0
    /\ Cardinality({l \in LabelSet :
           ScoreOf(lastEvent.d.expressions, l) = MaxScore(lastEvent.d.expressions)}) > 1
    /\ Cardinality({l \in LabelSet : emotionsList[l].active}) = 1

\* C8: after a completed tick with zero faces the display is in its zero
\* state and the overlay holds no box.
C8_NoFaceResetsDisplay ==
    (lastEvent.name = "detectResolved" /\ lastEvent.d.length = 0) =>
        ZeroDisplay /\ overlay = {}

\* a zero-face tick completed while another call is still in flight
C8_NoFaceTickDone ==
    /\ lastEvent.name = "detectResolved"
    /\ lastEvent.d.length = 0
    /\ ZeroDisplay
    /\ inFlight > 0

\* C9: after a tick with a face, the label shown is the upper-cased label of
\* the earliest entry at the maximum score, the confidence is that score as
\* a percentage and the rectangle is at the first face's box in that label's
\* colour; with no score above 0 the label is NEUTRAL at 0.0%.
C9_DominantIsEarliestMax ==
    FaceTickDone =>
        LET entries == lastEvent.d.expressions
            m == MaxScore(entries)
            label == IF m > 0 THEN entries[EarliestMax(entries)][1] ELSE "neutral"
        IN  /\ emotionName = toUpperCase(label)
            /\ emotionConfidence = toFixed1(m) \o "%"
            /\ m = 0 => emotionName = "NEUTRAL" /\ emotionConfidence = "0.0%"
            /\ \E r \in overlay :
                  /\ r.op = "strokeRect"
                  /\ r.at = lastEvent.d.box
                  /\ r.style = emotionMap[label].color

\* happy, enumerated first, ties with sad at 0.82: HAPPY at 82.0% in happy's colour
C9_TieGoesToEarliest ==
    /\ FaceTickDone
    /\ lastEvent.d.expressions[2] = <<"happy", 820>>
    /\ lastEvent.d.expressions[3] = <<"sad", 820>>
    /\ emotionName = "HAPPY"
    /\ emotionConfidence = "82.0%"
    /\ \E r \in overlay : r.op = "strokeRect" /\ r.style = "#90ee90"

\* C10: a tick whose detector call fails changes neither the timers, the
\* running flag, the display nor the overlay, and raises nothing.
C10_FailedTickSwallowed ==
    [][lastEvent'.name = "detectRejected" =>
          /\ UNCHANGED <<activeTimers, detectingInterval, isVideoRunning, displayVars>>
          /\ uncaught' = uncaught]_vars

\* a detector call failed while the loop was running and a face was shown
C10_FailedTickDone ==
    /\ lastEvent.name = "detectRejected"
    /\ isVideoRunning
    /\ activeTimers # {}
    /\ emotionName = "HAPPY"
    /\ ~uncaught

\* C11: a page unload while the camera is running runs the stop sequence
\* (flag false, timer cancelled, attached stream's tracks stopped, display
\* reset); an unload while it is not running changes nothing.
C11_UnloadStopsRunningCamera ==
    [][lastEvent'.name \in {"beforeunload", "beforeunloadStop"} =>
          IF isVideoRunning
             THEN /\ ~isVideoRunning'
                  /\ activeTimers' = {}
                  /\ srcObject' \notin liveStreams'
                  /\ ZeroDisplay'
                  /\ overlay' = {}
             ELSE UNCHANGED <<pageVars, isVideoRunning, ctx, canvasSize, displayVars,
                              cameraVars, timerVars, inFlight>>]_vars

\* the page was unloaded with the camera running, a timer set and a face shown
\* before: the session is stopped and the display reset
C11_UnloadedWhileRunning ==
    /\ lastEvent.name = "beforeunloadStop"
    /\ detectingInterval # 0
    /\ ~isVideoRunning
    /\ activeTimers = {}
    /\ ZeroDisplay

\* C12: a detector call that completes after stopWebcam() changes nothing on
\* the page: from the stop until the next start the display stays reset and
\* the overlay empty.
C12_DisplayStaysResetAfterStop == stopped => (ZeroDisplay /\ overlay = {})

\* C13: a timer tick that begins while the camera is running issues a new
\* detector call whether or not earlier calls are still unresolved, so two
\* calls can be in flight at once.
C13_TickIssuesCallRegardless ==
    [][(lastEvent'.name \in {"tick", "tickSkipped"} /\ isVideoRunning) =>
          inFlight' = inFlight + 1]_vars

\* a tick started a call while another call was still in flight
C13_TwoCallsInFlight ==
    /\ lastEvent.name = "tick"
    /\ inFlight > 1
    /\ isVideoRunning

\* what a completed tick with result d draws on an empty surface
DrawnBy(d) ==
    IF d.length > 0
       THEN drawFace(d.box, dominant(d.expressions).emotion, dominant(d.expressions).value)
       ELSE {}

\* C14: the overlay never holds more than one face box and one label; after
\* a completed tick it holds exactly what that tick drew, and any other step
\* leaves it as it is or empties it.
C14_OverlayHoldsLatestTickOnly ==
    /\ [](/\ Cardinality({r \in overlay : r.op = "strokeRect"}) <= 1
          /\ Cardinality({r \in overlay : r.op = "fillText"}) <= 1)
    /\ [][IF lastEvent'.name = "detectResolved"
             THEN overlay' = DrawnBy(lastEvent'.d)
             ELSE overlay' = overlay \/ overlay' = {}]_vars

\* a tick drew a face while another call was still in flight: the overlay
\* holds that one box and its label
C14_OverlappingTickDrew ==
    /\ lastEvent.name = "detectResolved"
    /\ lastEvent.d.length > 0
    /\ inFlight > 0
    /\ Cardinality(overlay) = 2

\* C15: a timer tick that begins while the camera is not running issues no
\* detector call and changes neither the running flag, the timer handle, the
\* timers, the overlay nor any display element.
C15_TickWhileStoppedIsNoOp ==
    [][(lastEvent'.name \in {"tick", "tickSkipped"} /\ ~isVideoRunning) =>
          UNCHANGED <<inFlight, isVideoRunning, timerVars, displayVars, pageVars,
                      cameraVars, ctx, canvasSize>>]_vars

\* a timer fired while the camera was not running
C15_TickFiredWhileStopped ==
    /\ lastEvent.name = "tickSkipped"
    /\ ~isVideoRunning
    /\ activeTimers # {}

\* C16: whenever the running flag is true the toggle shows 'Stop Camera'
\* with the active mark.
C16_RunningShowsStopCamera ==
    isVideoRunning => (toggleBtn.textContent = "Stop Camera" /\ toggleBtn.active)

\* C17: through the page's own handlers stopWebcam() and the part of a tick
\* after its await only run with the drawing context set: whenever the
\* camera is running or a detector call is in flight ctx is not null, and no
\* exception has escaped.
C17_ContextSetWhenUsed ==
    /\ (isVideoRunning \/ inFlight > 0) => ctx = "2d"
    /\ ~uncaught

\* a detector call completed after a click had stopped the camera: both
\* users of the drawing context have run
C17_StopAndLateTickRan ==
    /\ lastEvent.name = "detectResolved"
    /\ stopped
    /\ ctx = "2d"
    /\ ~uncaught
=============================================================================
